---- MODULE Spec2Model ----
(***************************************************************************)
(* A model of finance_data_extract.py: the FinancialData record built from  *)
(* three raw statement tables, the 25 ratio functions, the four category    *)
(* table functions and createMasterReport.                                  *)
(*                                                                          *)
(* Numbers.  A cell or a ratio value is a record [k, n, d]:                 *)
(*   k = "num"  the number n/d, in lowest terms with d > 0 (float64 and     *)
(*              int64 values are modelled as exact rationals),              *)
(*   k = "nan"  numpy's NaN,                                                *)
(*   k = "inf"  numpy's infinity with sign n (1 or -1),                     *)
(*   k = "none" Python's None inside an object array,                       *)
(*   k = "str"  a non-numeric string cell of a raw table such as "-".       *)
(* Index labels are integers: the raw tables carry the labels 1..N that     *)
(* transpose()[1:] leaves, the period labels of `dates` are years.          *)
(***************************************************************************)
EXTENDS Integers, Sequences, FiniteSets, TLC

VARIABLES balSht, incStmt, cfStmt, dates, financialData, constructed,
          pc, ret, file, threads, report

vars == <<balSht, incStmt, cfStmt, dates, financialData, constructed,
          pc, ret, file, threads, report>>

----------------------------------------------------------------------------
(* Bounds of the model and constants of the program.                        *)

\* the statements cover 1..MaxPeriods periods
MaxPeriods == 3

\* the report is generated at most MaxReports times
MaxReports == 2

ROUNDING_PRECISION == 3

----------------------------------------------------------------------------
(* Values and float arithmetic (numpy semantics on exact rationals).        *)

Abs(i) == IF i < 0 THEN -i ELSE i

RECURSIVE Gcd(_, _)
Gcd(a, b) == IF b = 0 THEN a ELSE Gcd(b, a % b)

RECURSIVE Pow10(_)
Pow10(e) == IF e = 0 THEN 1 ELSE 10 * Pow10(e - 1)

NaN == [k |-> "nan", n |-> 0, d |-> 1]

None == [k |-> "none", n |-> 0, d |-> 1]

Dash == [k |-> "str", n |-> 0, d |-> 1]

Inf(s) == [k |-> "inf", n |-> s, d |-> 1]

Rat(n, d) ==
    LET s == IF d < 0 THEN -1 ELSE 1
        g == Gcd(Abs(n), Abs(d))
    IN  [k |-> "num", n |-> (s * n) \div g, d |-> (s * d) \div g]

Num(i) == [k |-> "num", n |-> i, d |-> 1]

IsNum(v) == v.k = "num"

Sign(v) == IF v.n > 0 THEN 1 ELSE IF v.n < 0 THEN -1 ELSE 0

\* pandas.notna: neither None nor NaN
NotNA(v) == v.k \notin {"nan", "none"}

FAdd(a, b) ==
    IF a.k = "nan" \/ b.k = "nan" THEN NaN
    ELSE IF a.k = "inf" /\ b.k = "inf" THEN (IF a.n = b.n THEN a ELSE NaN)
    ELSE IF a.k = "inf" THEN a
    ELSE IF b.k = "inf" THEN b
    ELSE Rat(a.n * b.d + b.n * a.d, a.d * b.d)

FNeg(a) == IF a.k \in {"num", "inf"} THEN [a EXCEPT !.n = -a.n] ELSE a

FSub(a, b) == FAdd(a, FNeg(b))

FMul(a, b) ==
    IF a.k = "nan" \/ b.k = "nan" THEN NaN
    ELSE IF a.k = "inf" \/ b.k = "inf"
         THEN (IF Sign(a) * Sign(b) = 0 THEN NaN ELSE Inf(Sign(a) * Sign(b)))
    ELSE Rat(a.n * b.n, a.d * b.d)

\* numpy true division: x/0 is an infinity with the sign of x, 0/0 is NaN
FDiv(a, b) ==
    IF a.k = "nan" \/ b.k = "nan" THEN NaN
    ELSE IF a.k = "inf" /\ b.k = "inf" THEN NaN
    ELSE IF a.k = "inf" THEN Inf(IF Sign(b) < 0 THEN -a.n ELSE a.n)
    ELSE IF b.k = "inf" THEN Num(0)
    ELSE IF b.n = 0 THEN (IF a.n = 0 THEN NaN ELSE Inf(Sign(a)))
    ELSE Rat(a.n * b.d, a.d * b.n)

FAbs(a) == IF a.k \in {"num", "inf"} THEN [a EXCEPT !.n = Abs(a.n)] ELSE a

\* numpy.round(x, decimals): rint(x * 10^decimals) / 10^decimals, halves to
\* even; the whole part is split off first to keep the products small
FRound(a, decimals) ==
    IF a.k # "num" THEN a
    ELSE LET p     == Pow10(decimals)
             whole == a.n \div a.d
             rem   == a.n % a.d
             q     == whole * p + ((rem * p) \div a.d)
             r     == (rem * p) % a.d
             i     == IF 2 * r < a.d THEN q
                      ELSE IF 2 * r > a.d THEN q + 1
                      ELSE IF q % 2 = 0 THEN q ELSE q + 1
         IN  Rat(i, p)

----------------------------------------------------------------------------
(* pandas Series: index labels, values and dtype; index alignment.          *)

Series(index, values, dtype) ==
    [index |-> index, values |-> values, dtype |-> dtype]

RECURSIVE SetToSortedSeq(_)
SetToSortedSeq(S) ==
    IF S = {} THEN <<>>
    ELSE LET m == CHOOSE x \in S : \A y \in S : x <= y
         IN  <<m>> \o SetToSortedSeq(S \ {m})

RECURSIVE Concat(_)
Concat(ss) == IF ss = <<>> THEN <<>> ELSE Head(ss) \o Concat(Tail(ss))

Range(s) == {s[i] : i \in 1..Len(s)}

IsUnique(index) == Cardinality(Range(index)) = Len(index)

\* the positions of label l in an index, ascending
Positions(index, l) ==
    LET carries(i) == index[i] = l
    IN  SelectSeq([i \in 1..Len(index) |-> i], carries)

\* The pairs of positions one label contributes to an outer join: every
\* combination when both sides carry it, else the side that does (0: absent).
PairsOfLabel(ia, ib, l) ==
    LET pa == Positions(ia, l)
        pb == Positions(ib, l)
    IN  IF pb = <<>> THEN [i \in 1..Len(pa) |-> <<pa[i], 0>>]
        ELSE IF pa = <<>> THEN [j \in 1..Len(pb) |-> <<0, pb[j]>>]
        ELSE [k \in 1..(Len(pa) * Len(pb)) |->
                <<pa[((k - 1) \div Len(pb)) + 1], pb[((k - 1) % Len(pb)) + 1]>>]

\* Series.align of a binary operation: equal indexes are used as they are,
\* otherwise the operands are outer-joined on the sorted union of the labels.
AlignPairs(ia, ib) ==
    IF ia = ib THEN [i \in 1..Len(ia) |-> <<i, i>>]
    ELSE LET ls == SetToSortedSeq(Range(ia) \cup Range(ib))
         IN  Concat([j \in 1..Len(ls) |-> PairsOfLabel(ia, ib, ls[j])])

At(values, i) == IF i = 0 THEN NaN ELSE values[i]

\* One element of a Series operation.  Numeric operands: numpy arithmetic.
\* An object operand holding None makes the element-wise attempt raise
\* TypeError, and pandas falls back to the masked operation: the operation
\* where both elements are not null, NaN elsewhere.
arith(op, x, y) ==
    CASE op = "add" -> FAdd(x, y)
      [] op = "sub" -> FSub(x, y)
      [] op = "truediv" -> FDiv(x, y)

elementOp(op, x, y, object) ==
    IF object /\ ~(NotNA(x) /\ NotNA(y)) THEN NaN ELSE arith(op, x, y)

\* the operation on operands aligned by the row pairs ps
alignedOp(op, a, b, ps, isDiv) ==
    Series([p \in 1..Len(ps) |->
              IF ps[p][1] # 0 THEN a.index[ps[p][1]] ELSE b.index[ps[p][2]]],
           [p \in 1..Len(ps) |->
              elementOp(op, At(a.values, ps[p][1]), At(b.values, ps[p][2]),
                        a.dtype = "object" \/ b.dtype = "object")],
           IF a.dtype = "object" \/ b.dtype = "object" THEN "object"
           ELSE IF a.index = b.index /\ ~isDiv
                   /\ a.dtype = "int64" /\ b.dtype = "int64"
                THEN "int64" ELSE "float64")

\* Series arithmetic: align on the index, then operate element by element
SeriesOp(op, a, b, isDiv) ==
    alignedOp(op, a, b, AlignPairs(a.index, b.index), isDiv)

SeriesDiv(a, b) == SeriesOp("truediv", a, b, TRUE)

SeriesAdd(a, b) == SeriesOp("add", a, b, FALSE)

SeriesSub(a, b) == SeriesOp("sub", a, b, FALSE)

\* scalar * Series
ScalarMul(c, a) ==
    Series(a.index, [i \in 1..Len(a.values) |-> FMul(Num(c), a.values[i])],
           a.dtype)

\* numpy.abs(Series)
SeriesAbs(a) ==
    Series(a.index, [i \in 1..Len(a.values) |-> FAbs(a.values[i])], a.dtype)

----------------------------------------------------------------------------
(* pandas DataFrame: row labels, column names, one value sequence and one   *)
(* dtype per column.  err names the exception raised instead, if any.       *)

Frame(index, columns, data, dtypes) ==
    [err |-> "", index |-> index, columns |-> columns, data |-> data,
     dtypes |-> dtypes]

Raised(e) ==
    [err |-> e, index |-> <<>>, columns |-> <<>>, data |-> <<>>,
     dtypes |-> <<>>]

NoFrame == Raised("")

\* pd.DataFrame(values, index=dates, columns=[name]): the values must have
\* one entry per index label, else ValueError (shape of passed values)
DataFrame(s, index, name) ==
    IF Len(s.values) # Len(index) THEN Raised("ValueError")
    ELSE Frame(index, <<name>>, <<s.values>>, <<s.dtype>>)

----------------------------------------------------------------------------
(* The raw statement tables and FinancialData.__init__.                     *)
(* A raw table is [index, cols]: the row labels and, per column name it     *)
(* has, the cells of that column.                                           *)

\* the private attributes of FinancialData, in the order __init__ sets them
FieldOrder ==
    <<"cce", "currLia", "currAssets", "shortTermInv", "NR", "inventory",
      "totalAssets", "totalLia", "totalSE",
      "sales", "gp", "noil", "ie", "ebit", "cor", "ni",
      "ocf">>

Fields == Range(FieldOrder)

\* the table each attribute is read from
TableOf(f) ==
    IF f \in {"cce", "currLia", "currAssets", "shortTermInv", "NR",
              "inventory", "totalAssets", "totalLia", "totalSE"}
    THEN "balSht"
    ELSE IF f = "ocf" THEN "cfStmt" ELSE "incStmt"

\* the column each attribute is read from
ColumnOf(f) ==
    CASE f = "cce"          -> "Cash And Cash Equivalents"
      [] f = "currLia"      -> "Total Current Liabilities"
      [] f = "currAssets"   -> "Total Current Assets"
      [] f = "shortTermInv" -> "Short Term Investments"
      [] f = "NR"           -> "Net Receivables"
      [] f = "inventory"    -> "Inventory"
      [] f = "totalAssets"  -> "Total Assets"
      [] f = "totalLia"     -> "Total Liabilities"
      [] f = "totalSE"      -> "Total Stockholder Equity"
      [] f = "sales"        -> "Total Revenue"
      [] f = "gp"           -> "Gross Profit"
      [] f = "noil"         -> "Operating Income or Loss"
      [] f = "ie"           -> "Interest Expense"
      [] f = "ebit"         -> "Earnings Before Interest and Taxes"
      [] f = "cor"          -> "Cost of Revenue"
      [] f = "ni"           -> "Net Income"
      [] f = "ocf"          -> "Total Cash Flow From Operating Activities"

\* table[column] raises KeyError when the table has no such column
HasColumn(table, column) == column \in DOMAIN table.cols

\* pd.to_numeric(errors="raise") raises ValueError on a cell it cannot parse
Parses(cells) == \A i \in 1..Len(cells) : cells[i].k # "str"

\* pd.to_numeric: int64 when every cell is an integer, float64 otherwise
to_numeric(index, cells) ==
    Series(index, cells,
           IF \A i \in 1..Len(cells) : IsNum(cells[i]) /\ cells[i].d = 1
           THEN "int64" ELSE "float64")

\* the exception one assignment of __init__ raises, "" if none
FieldError(table, f) ==
    IF ~HasColumn(table, ColumnOf(f)) THEN "KeyError"
    ELSE IF ~Parses(table.cols[ColumnOf(f)]) THEN "ValueError"
    ELSE ""

\* FinancialData.__init__: the assignments run in order and the first one
\* that raises ends the construction.  [err, data]
FinancialData(bs, is, cf) ==
    LET table(f) == IF TableOf(f) = "balSht" THEN bs
                    ELSE IF TableOf(f) = "incStmt" THEN is ELSE cf
        bad == {i \in 1..Len(FieldOrder) :
                  FieldError(table(FieldOrder[i]), FieldOrder[i]) # ""}
    IN  IF bad # {}
        THEN LET i == CHOOSE x \in bad : \A y \in bad : x <= y
             IN  [err  |-> FieldError(table(FieldOrder[i]), FieldOrder[i]),
                  data |-> "undefined"]
        ELSE [err  |-> "",
              data |-> [f \in Fields |->
                          to_numeric(table(f).index,
                                     table(f).cols[ColumnOf(f)])]]

----------------------------------------------------------------------------
(* The ratio functions.  Each reads the global financialData (fd) and       *)
(* returns a one-column DataFrame indexed by dates.  A call is modelled as  *)
(* [fd, out, avg]: the global after the call, the value returned (or the    *)
(* exception raised) and, for the averaged ratios, the local array of       *)
(* two-period averages.                                                     *)

Result(fd, out, avg) == [fd |-> fd, out |-> out, avg |-> avg]

\* frame[name] of a one-column frame: that column as a Series
ColumnSeries(frame) == Series(frame.index, frame.data[1], frame.dtypes[1])

\* The Series objects a Working-Capital dependent holds: the record's own
\* (the getters return references) and its local wc_series.
Objects(fd, wc_series) ==
    [o \in Fields \cup {"wc_series"} |->
        IF o = "wc_series" THEN wc_series ELSE fd[o]]

\* a variant of SetIndex with the assignment turned round:
\* source.index = target.index
SetIndex_Reversed(objs, target, source) ==
    [objs EXCEPT ![source].index = objs[target].index]

\* target.index = source.index
SetIndex(objs, target, source) ==
    [objs EXCEPT ![target].index = objs[source].index]

\* the record as the objects leave it
RecordOf(objs) == [f \in Fields |-> objs[f]]

(* Liquidity ratios *)

calculateCashRatio(fd, dts) ==
    LET cce           == fd["cce"]
        currLia       == fd["currLia"]
        ratioAsSeries == SeriesDiv(cce, currLia)
    IN  Result(fd, DataFrame(ratioAsSeries, dts, "Cash Ratio"), <<>>)

calculateQuickRatio(fd, dts) ==
    LET cce           == fd["cce"]
        si            == fd["shortTermInv"]
        nr            == fd["NR"]
        qa            == SeriesAdd(SeriesAdd(cce, si), nr)
        currLia       == fd["currLia"]
        ratioAsSeries == SeriesDiv(qa, currLia)
    IN  Result(fd, DataFrame(ratioAsSeries, dts, "Quick Ratio"), <<>>)

\* a variant of calculateCurrentRatio with the operands exchanged
calculateCurrentRatio_Inverted(fd, dts) ==
    LET currAssets    == fd["currAssets"]
        currLia       == fd["currLia"]
        ratioAsSeries == SeriesDiv(currLia, currAssets)
    IN  Result(fd, DataFrame(ratioAsSeries, dts, "Current Ratio"), <<>>)

calculateCurrentRatio(fd, dts) ==
    LET currAssets    == fd["currAssets"]
        currLia       == fd["currLia"]
        ratioAsSeries == SeriesDiv(currAssets, currLia)
    IN  Result(fd, DataFrame(ratioAsSeries, dts, "Current Ratio"), <<>>)

\* a variant of calculateWorkingCapital that keeps its result in the record:
\* currAssets = 1000*currAssets - 1000*currLia, written back to the series
calculateWorkingCapital_InPlace(fd, dts) ==
    LET currAssets    == fd["currAssets"]
        currLia       == fd["currLia"]
        ratioAsSeries == SeriesSub(ScalarMul(1000, currAssets),
                                   ScalarMul(1000, currLia))
    IN  Result([fd EXCEPT !["currAssets"] = ratioAsSeries],
               DataFrame(ratioAsSeries, dts, "Working Capital (WC)"), <<>>)

\* a variant of calculateWorkingCapital that rounds what it returns to the
\* display precision
calculateWorkingCapital_Rounded(fd, dts) ==
    LET currAssets    == fd["currAssets"]
        currLia       == fd["currLia"]
        ratioAsSeries == SeriesSub(ScalarMul(1000, currAssets),
                                   ScalarMul(1000, currLia))
    IN  Result(fd,
               DataFrame([ratioAsSeries EXCEPT !.values =
                            [i \in 1..Len(@) |->
                               FRound(@[i], ROUNDING_PRECISION)]],
                         dts, "Working Capital (WC)"), <<>>)

calculateWorkingCapital(fd, dts) ==
    LET currAssets    == fd["currAssets"]
        currLia       == fd["currLia"]
        ratioAsSeries == SeriesSub(ScalarMul(1000, currAssets),
                                   ScalarMul(1000, currLia))
    IN  Result(fd, DataFrame(ratioAsSeries, dts, "Working Capital (WC)"), <<>>)

\* wc = calculateWorkingCapital(dates); wc_series = wc["Working Capital (WC)"];
\* wc_series.index = <field>.index.  [err, fd, objs]
reindexedWC(wc, field) ==
    IF wc.out.err # ""
    THEN [err |-> wc.out.err, fd |-> wc.fd, objs |-> <<>>]
    ELSE [err |-> "", fd |-> wc.fd,
          objs |-> SetIndex(Objects(wc.fd, ColumnSeries(wc.out)),
                            "wc_series", field)]

\* return pd.DataFrame(ratioAsSeries.values, index=dates, columns=[name])
\* of a Working-Capital dependent
wcReturn(w, ratioAsSeries, dts, name) ==
    IF w.err # "" THEN Result(w.fd, Raised(w.err), <<>>)
    ELSE Result(RecordOf(w.objs), DataFrame(ratioAsSeries, dts, name), <<>>)

cashToWC(w, dts) ==
    wcReturn(w, IF w.err # "" THEN <<>>
                ELSE SeriesDiv(ScalarMul(1000, w.objs["cce"]),
                               w.objs["wc_series"]),
             dts, "Cash To WC Ratio")

calculateCashToWorkingCapitalRatio(fd, dts) ==
    cashToWC(reindexedWC(calculateWorkingCapital(fd, dts), "cce"), dts)

inventoryToWC(w, dts) ==
    wcReturn(w, IF w.err # "" THEN <<>>
                ELSE SeriesDiv(ScalarMul(1000, w.objs["inventory"]),
                               w.objs["wc_series"]),
             dts, "Inventory To WC Ratio")

calculateInventoryToWorkingCapitalRatio(fd, dts) ==
    inventoryToWC(reindexedWC(calculateWorkingCapital(fd, dts), "inventory"),
                  dts)

salesToWC(w, dts) ==
    wcReturn(w, IF w.err # "" THEN <<>>
                ELSE SeriesDiv(ScalarMul(1000, w.objs["sales"]),
                               w.objs["wc_series"]),
             dts, "Sales To WC Ratio")

salesToWorkingCapitalRatio(fd, dts) ==
    salesToWC(reindexedWC(calculateWorkingCapital(fd, dts), "sales"), dts)

salesToCurrentAssetsRatio(fd, dts) ==
    LET sales         == fd["sales"]
        ca            == fd["currAssets"]
        ratioAsSeries == SeriesDiv(sales, ca)
    IN  Result(fd, DataFrame(ratioAsSeries, dts,
                             "Sales To Current Assets Ratio"), <<>>)

(* Solvency ratios *)

calculateDebtRatio(fd, dts) ==
    LET tl            == fd["totalLia"]
        ta            == fd["totalAssets"]
        ratioAsSeries == SeriesDiv(tl, ta)
    IN  Result(fd, DataFrame(ratioAsSeries, dts, "Debt Ratio"), <<>>)

calculateEquityRatio(fd, dts) ==
    LET te            == fd["totalSE"]
        ta            == fd["totalAssets"]
        ratioAsSeries == SeriesDiv(te, ta)
    IN  Result(fd, DataFrame(ratioAsSeries, dts, "Equity Ratio"), <<>>)

calculateDebtToEquityRatio(fd, dts) ==
    LET te            == fd["totalSE"]
        tl            == fd["totalLia"]
        ratioAsSeries == SeriesDiv(tl, te)
    IN  Result(fd, DataFrame(ratioAsSeries, dts, "Debt to Equity Ratio"), <<>>)

calculateDebtToIncomeRatio(fd, dts) ==
    LET tl            == fd["totalLia"]
        gp            == fd["gp"]
        ratioAsSeries == SeriesDiv(tl, gp)
    IN  Result(fd, DataFrame(ratioAsSeries, dts, "Debt to Income Ratio"), <<>>)

calculateDebtServiceCoverageRatio(fd, dts) ==
    LET noi           == fd["noil"]
        ie            == fd["ie"]
        ratioAsSeries == SeriesDiv(noi, ie)
    IN  Result(fd, DataFrame(ratioAsSeries, dts,
                             "Debt Service Coverage Ratio"), <<>>)

calculateCashFlowToDebtRatio(fd, dts) ==
    LET ocf           == fd["ocf"]
        tl            == fd["totalLia"]
        ratioAsSeries == SeriesDiv(ocf, tl)
    IN  Result(fd, DataFrame(ratioAsSeries, dts, "Cash Flow to Debt Ratio"),
               <<>>)

wcToDebt(w, dts) ==
    wcReturn(w, IF w.err # "" THEN <<>>
                ELSE SeriesDiv(w.objs["wc_series"], w.objs["totalLia"]),
             dts, "WC to Debt Ratio")

calculateWCToDebtRatio(fd, dts) ==
    wcToDebt(reindexedWC(calculateWorkingCapital(fd, dts), "totalLia"), dts)

\* a variant of calculateTimesInterestEarned without np.abs
calculateTimesInterestEarned_NoAbs(fd, dts) ==
    LET ebit          == fd["ebit"]
        ie            == fd["ie"]
        ratioAsSeries == SeriesDiv(ebit, ie)
    IN  Result(fd, DataFrame(ratioAsSeries, dts, "Times Interest Earned"), <<>>)

calculateTimesInterestEarned(fd, dts) ==
    LET ebit          == fd["ebit"]
        ie            == SeriesAbs(fd["ie"])
        ratioAsSeries == SeriesDiv(ebit, ie)
    IN  Result(fd, DataFrame(ratioAsSeries, dts, "Times Interest Earned"), <<>>)

(* Efficiency ratios *)

\* a variant of avgLoop that stores each average at the older period:
\* avg[index+1] = 0.5*(x[index]+x[index+1])
RECURSIVE avgLoop_StoreAtOlder(_, _, _)
avgLoop_StoreAtOlder(x, avg, index) ==
    IF index > Len(x) - 1 THEN avg
    ELSE avgLoop_StoreAtOlder(x,
                 [avg EXCEPT ![index + 1] =
                     FMul(Rat(1, 2), FAdd(x[index], x[index + 1]))],
                 index + 1)

\* for index in range(len(x)-1): avg[index] = 0.5*(x[index]+x[index+1]),
\* positions counted from 1 here
RECURSIVE avgLoop(_, _, _)
avgLoop(x, avg, index) ==
    IF index > Len(x) - 1 THEN avg
    ELSE avgLoop(x,
                 [avg EXCEPT ![index] =
                     FMul(Rat(1, 2), FAdd(x[index], x[index + 1]))],
                 index + 1)

\* a variant of twoPeriodAverage that pairs every period with the oldest one:
\* avg[index] = 0.5*(x[index]+x[-1])
twoPeriodAverage_WithOldest(x) ==
    [i \in 1..Len(x) |->
        IF i = Len(x) THEN None ELSE FMul(Rat(1, 2), FAdd(x[i], x[Len(x)]))]

\* np.array([None]*len(x)) filled by the loop
twoPeriodAverage(x) == avgLoop(x, [i \in 1..Len(x) |-> None], 1)

\* a variant of avgSeries that labels the averages from 0: range(len(avg))
avgSeries_FromZero(avg) == Series([i \in 1..Len(avg) |-> i - 1], avg, "object")

\* pd.Series(avg, index=range(1, len(avg)+1))
avgSeries(avg) == Series([i \in 1..Len(avg) |-> i], avg, "object")

\* ratioAsSeries = flow/avg; return pd.DataFrame(ratioAsSeries.values, ...)
overAverage(fd, flow, avg, dts, name) ==
    Result(fd, DataFrame(SeriesDiv(flow, avgSeries(avg)), dts, name), avg)

calculateAssetTurnoverRatio(fd, dts) ==
    overAverage(fd, fd["sales"], twoPeriodAverage(fd["totalAssets"].values), dts,
                "Asset Turnover Ratio")

calculateInventoryTurnoverRatio(fd, dts) ==
    overAverage(fd, fd["cor"], twoPeriodAverage(fd["inventory"].values), dts,
                "Inventory Turnover Ratio")

\* a variant of calculateAccountsReceivableTurnoverRatio over the receivables
\* of the period itself instead of the two-period average
calculateAccountsReceivableTurnoverRatio_EndOfPeriod(fd, dts) ==
    Result(fd, DataFrame(SeriesDiv(fd["sales"], fd["NR"]), dts,
                         "Accounts Receivable Turnover Ratio"),
           fd["NR"].values)

calculateAccountsReceivableTurnoverRatio(fd, dts) ==
    overAverage(fd, fd["sales"], twoPeriodAverage(fd["NR"].values), dts,
                "Accounts Receivable Turnover Ratio")

(* Profitability ratios *)

\* a variant of calculateROARatio whose averages are written into the
\* record's own array (avgAssets = totalAssets, no copy)
calculateROARatio_InPlace(fd, dts) ==
    overAverage([fd EXCEPT !["totalAssets"].values = avgLoop(@, @, 1)],
                fd["ni"],
                avgLoop(fd["totalAssets"].values, fd["totalAssets"].values, 1),
                dts, "Return on Assets")

calculateROARatio(fd, dts) ==
    overAverage(fd, fd["ni"], twoPeriodAverage(fd["totalAssets"].values), dts,
                "Return on Assets")

calculateROERatio(fd, dts) ==
    LET ni            == fd["ni"]
        totalSE       == fd["totalSE"]
        ratioAsSeries == SeriesDiv(ni, totalSE)
    IN  Result(fd, DataFrame(ratioAsSeries, dts, "Return on Equity"), <<>>)

calculateROSRatio(fd, dts) ==
    LET ebit          == fd["ebit"]
        sales         == fd["sales"]
        ratioAsSeries == SeriesDiv(ebit, sales)
    IN  Result(fd, DataFrame(ratioAsSeries, dts, "Return on Sales"), <<>>)

calculateNetProfitMarginRatio(fd, dts) ==
    LET ni            == fd["ni"]
        sales         == fd["sales"]
        ratioAsSeries == SeriesDiv(ni, sales)
    IN  Result(fd, DataFrame(ratioAsSeries, dts, "Net Profit Margin Ratio"),
               <<>>)

calculateGrossProfitMarginRatio(fd, dts) ==
    LET gp            == fd["gp"]
        sales         == fd["sales"]
        ratioAsSeries == SeriesDiv(gp, sales)
    IN  Result(fd, DataFrame(ratioAsSeries, dts, "Gross Profit Margin Ratio"),
               <<>>)

calculateOperatingProfitMarginRatio(fd, dts) ==
    LET op            == fd["noil"]
        sales         == fd["sales"]
        ratioAsSeries == SeriesDiv(op, sales)
    IN  Result(fd, DataFrame(ratioAsSeries, dts,
                             "Operating Profit Margin Ratio"), <<>>)

----------------------------------------------------------------------------
(* The lists of ratio functions the category tables are built from.         *)

LiquidityFunctions ==
    <<"calculateCashRatio", "calculateQuickRatio", "calculateCurrentRatio",
      "calculateWorkingCapital", "calculateCashToWorkingCapitalRatio",
      "calculateInventoryToWorkingCapitalRatio", "salesToWorkingCapitalRatio",
      "salesToCurrentAssetsRatio">>

SolvencyFunctions ==
    <<"calculateDebtRatio", "calculateEquityRatio",
      "calculateDebtToEquityRatio", "calculateDebtToIncomeRatio",
      "calculateDebtServiceCoverageRatio", "calculateCashFlowToDebtRatio",
      "calculateWCToDebtRatio", "calculateTimesInterestEarned">>

EfficiencyFunctions ==
    <<"calculateAssetTurnoverRatio", "calculateInventoryTurnoverRatio",
      "calculateAccountsReceivableTurnoverRatio">>

ProfitabilityFunctions ==
    <<"calculateROARatio", "calculateROERatio", "calculateROSRatio",
      "calculateNetProfitMarginRatio", "calculateGrossProfitMarginRatio",
      "calculateOperatingProfitMarginRatio">>

RatioFunctions ==
    Range(LiquidityFunctions) \cup Range(SolvencyFunctions)
      \cup Range(EfficiencyFunctions) \cup Range(ProfitabilityFunctions)

\* the call fn(dates) with the global record fd
Call(fn, fd, dts) ==
    CASE fn = "calculateCashRatio" -> calculateCashRatio(fd, dts)
      [] fn = "calculateQuickRatio" -> calculateQuickRatio(fd, dts)
      [] fn = "calculateCurrentRatio" -> calculateCurrentRatio(fd, dts)
      [] fn = "calculateWorkingCapital" -> calculateWorkingCapital(fd, dts)
      [] fn = "calculateCashToWorkingCapitalRatio" ->
            calculateCashToWorkingCapitalRatio(fd, dts)
      [] fn = "calculateInventoryToWorkingCapitalRatio" ->
            calculateInventoryToWorkingCapitalRatio(fd, dts)
      [] fn = "salesToWorkingCapitalRatio" ->
            salesToWorkingCapitalRatio(fd, dts)
      [] fn = "salesToCurrentAssetsRatio" -> salesToCurrentAssetsRatio(fd, dts)
      [] fn = "calculateDebtRatio" -> calculateDebtRatio(fd, dts)
      [] fn = "calculateEquityRatio" -> calculateEquityRatio(fd, dts)
      [] fn = "calculateDebtToEquityRatio" ->
            calculateDebtToEquityRatio(fd, dts)
      [] fn = "calculateDebtToIncomeRatio" ->
            calculateDebtToIncomeRatio(fd, dts)
      [] fn = "calculateDebtServiceCoverageRatio" ->
            calculateDebtServiceCoverageRatio(fd, dts)
      [] fn = "calculateCashFlowToDebtRatio" ->
            calculateCashFlowToDebtRatio(fd, dts)
      [] fn = "calculateWCToDebtRatio" -> calculateWCToDebtRatio(fd, dts)
      [] fn = "calculateTimesInterestEarned" ->
            calculateTimesInterestEarned(fd, dts)
      [] fn = "calculateAssetTurnoverRatio" ->
            calculateAssetTurnoverRatio(fd, dts)
      [] fn = "calculateInventoryTurnoverRatio" ->
            calculateInventoryTurnoverRatio(fd, dts)
      [] fn = "calculateAccountsReceivableTurnoverRatio" ->
            calculateAccountsReceivableTurnoverRatio(fd, dts)
      [] fn = "calculateROARatio" -> calculateROARatio(fd, dts)
      [] fn = "calculateROERatio" -> calculateROERatio(fd, dts)
      [] fn = "calculateROSRatio" -> calculateROSRatio(fd, dts)
      [] fn = "calculateNetProfitMarginRatio" ->
            calculateNetProfitMarginRatio(fd, dts)
      [] fn = "calculateGrossProfitMarginRatio" ->
            calculateGrossProfitMarginRatio(fd, dts)
      [] fn = "calculateOperatingProfitMarginRatio" ->
            calculateOperatingProfitMarginRatio(fd, dts)

----------------------------------------------------------------------------
(* The report-generating functions.                                         *)

\* [f(dates), g(dates), ...]: the calls run in order on the global record;
\* an exception in one ends the evaluation.  [fd, frames, err]
RECURSIVE listOfRatioTables(_, _, _)
RECURSIVE listAfter(_, _, _)
listOfRatioTables(fns, fd, dts) ==
    IF fns = <<>> THEN [fd |-> fd, frames |-> <<>>, err |-> ""]
    ELSE listAfter(Call(Head(fns), fd, dts), Tail(fns), dts)

prepend(frame, l) == [l EXCEPT !.frames = <<frame>> \o @]

listAfter(r, fns, dts) ==
    IF r.out.err # "" THEN [fd |-> r.fd, frames |-> <<>>, err |-> r.out.err]
    ELSE prepend(r.out, listOfRatioTables(fns, r.fd, dts))

\* The row pairs of left.join(right, how="left") on the index.  Two unique
\* indexes: the left rows in their order, each with the right row of its
\* label (0: none).  Otherwise the non-unique join: the left labels in sorted
\* order, each with every combination of its left and right rows.
joinPairs(li, ri) ==
    IF IsUnique(li) /\ IsUnique(ri)
    THEN [i \in 1..Len(li) |->
            <<i, IF li[i] \in Range(ri)
                 THEN CHOOSE j \in 1..Len(ri) : ri[j] = li[i] ELSE 0>>]
    ELSE LET ls == SetToSortedSeq(Range(li))
         IN  Concat([j \in 1..Len(ls) |-> PairsOfLabel(li, ri, ls[j])])

\* the joined frame of the row pairs ps
joined(left, right, ps, nl, nr) ==
    Frame([p \in 1..Len(ps) |-> left.index[ps[p][1]]],
          left.columns \o right.columns,
          [c \in 1..(nl + nr) |->
              [p \in 1..Len(ps) |->
                  IF c <= nl THEN left.data[c][ps[p][1]]
                  ELSE At(right.data[c - nl], ps[p][2])]],
          [c \in 1..(nl + nr) |->
              IF c <= nl THEN left.dtypes[c]
              ELSE IF right.dtypes[c - nl] = "int64"
                      /\ \E p \in 1..Len(ps) : ps[p][2] = 0
                   THEN "float64" ELSE right.dtypes[c - nl]])

\* table.join(other, how="left"): ValueError when column names overlap
join(left, right) ==
    IF Range(left.columns) \cap Range(right.columns) # {}
    THEN Raised("ValueError")
    ELSE joined(left, right, joinPairs(left.index, right.index),
                Len(left.columns), Len(right.columns))

\* table = frames[0]; for index in range(1, len(frames)): table = table.join(..)
RECURSIVE joinAll(_, _)
joinAll(table, frames) ==
    IF frames = <<>> \/ table.err # "" THEN table
    ELSE joinAll(join(table, Head(frames)), Tail(frames))

\* DataFrame.round(decimals): the integer and float columns are rounded, the
\* object columns are returned as they are
round(table, decimals) ==
    [table EXCEPT !.data =
        [c \in 1..Len(table.columns) |->
            IF table.dtypes[c] = "object" THEN table.data[c]
            ELSE [r \in 1..Len(table.index) |->
                    FRound(table.data[c][r], decimals)]]]

\* .astype(object).transpose(): ratio names become the row labels
transpose(table) ==
    Frame(table.columns, table.index,
          [r \in 1..Len(table.index) |->
              [c \in 1..Len(table.columns) |-> table.data[c][r]]],
          [r \in 1..Len(table.index) |-> "object"])

\* table.round(ROUNDING_PRECISION).astype(object).transpose()
rounded(table) ==
    IF table.err # "" THEN table
    ELSE transpose(round(table, ROUNDING_PRECISION))

\* the joins and the return of a category function
assemble(l) ==
    IF l.err # "" THEN Result(l.fd, Raised(l.err), <<>>)
    ELSE Result(l.fd, rounded(joinAll(Head(l.frames), Tail(l.frames))), <<>>)

\* the body the four category functions share
categoryTable(fns, fd, dts) == assemble(listOfRatioTables(fns, fd, dts))

getLiquidityRatios(fd, dts) == categoryTable(LiquidityFunctions, fd, dts)

\* a variant of getSolvencyRatios that lists Times Interest Earned next to
\* Debt Service Coverage
getSolvencyRatios_Reordered(fd, dts) ==
    categoryTable(<<"calculateDebtRatio", "calculateEquityRatio",
                    "calculateDebtToEquityRatio", "calculateDebtToIncomeRatio",
                    "calculateDebtServiceCoverageRatio",
                    "calculateTimesInterestEarned",
                    "calculateCashFlowToDebtRatio", "calculateWCToDebtRatio">>,
                  fd, dts)

getSolvencyRatios(fd, dts) == categoryTable(SolvencyFunctions, fd, dts)

getEfficiencyRatios(fd, dts) == categoryTable(EfficiencyFunctions, fd, dts)

getProfitabilityRatios(fd, dts) ==
    categoryTable(ProfitabilityFunctions, fd, dts)

TableFunctions ==
    {"getLiquidityRatios", "getSolvencyRatios", "getEfficiencyRatios",
     "getProfitabilityRatios"}

CallTable(fn, fd, dts) ==
    CASE fn = "getLiquidityRatios" -> getLiquidityRatios(fd, dts)
      [] fn = "getSolvencyRatios" -> getSolvencyRatios(fd, dts)
      [] fn = "getEfficiencyRatios" -> getEfficiencyRatios(fd, dts)
      [] fn = "getProfitabilityRatios" -> getProfitabilityRatios(fd, dts)

\* the text of one cell: the special values by name, a number by its whole
\* part and the fraction left over
format(v) ==
    CASE v.k = "nan"  -> [text |-> "NaN", whole |-> 0, num |-> 0, den |-> 1]
      [] v.k = "none" -> [text |-> "None", whole |-> 0, num |-> 0, den |-> 1]
      [] v.k = "inf"  -> [text |-> IF v.n > 0 THEN "inf" ELSE "-inf",
                          whole |-> 0, num |-> 0, den |-> 1]
      [] OTHER        -> [text |-> "number", whole |-> v.n \div v.d,
                          num |-> v.n % v.d, den |-> v.d]

\* DataFrame.to_html(): a header row of the column labels, then one row per
\* row label with its cells
to_html(table) ==
    [head |-> table.columns,
     rows |-> [r \in 1..Len(table.index) |->
                 [th |-> table.index[r],
                  td |-> [c \in 1..Len(table.columns) |->
                            format(table.data[c][r])]]]]

NoSrc == [header |-> "", sections |-> <<>>, footer |-> ""]

\* liqTable = getLiquidityRatios(dates); solvTable = ...: the table
\* functions run in order on the global record.  [fd, frames, err]
RECURSIVE reportTables(_, _, _)
RECURSIVE tablesAfter(_, _, _)
reportTables(fns, fd, dts) ==
    IF fns = <<>> THEN [fd |-> fd, frames |-> <<>>, err |-> ""]
    ELSE tablesAfter(CallTable(Head(fns), fd, dts), Tail(fns), dts)

tablesAfter(r, fns, dts) ==
    IF r.out.err # "" THEN [fd |-> r.fd, frames |-> <<>>, err |-> r.out.err]
    ELSE prepend(r.out, reportTables(fns, r.fd, dts))

\* src = header + liqTableHTML + solvTableHTML + effTableHTML +
\*       profitTableHTML + footer
document(t) ==
    IF t.err # "" THEN [fd |-> t.fd, out |-> Raised(t.err), src |-> NoSrc]
    ELSE [fd  |-> t.fd,
          out |-> NoFrame,
          src |-> [header   |-> "<html><head><title> Financial Ratios </title><body>",
                   sections |->
                     <<[h1 |-> "Liquidity Ratios",
                        table |-> to_html(t.frames[1])],
                       [h1 |-> "Solvency Ratios",
                        table |-> to_html(t.frames[2])],
                       [h1 |-> "Efficiency Ratios",
                        table |-> to_html(t.frames[3])],
                       [h1 |-> "Profitability Ratios",
                        table |-> to_html(t.frames[4])]>>,
                   footer   |-> "</body></html>"]]

\* createMasterReport: the four tables in order, then the document, then the
\* file.  [fd, out, src]: out is the exception a table raised, src the text
\* written to FinancialRatios.html (NoSrc when the file was not opened).
createMasterReport(fd, dts) ==
    document(reportTables(<<"getLiquidityRatios", "getSolvencyRatios",
                            "getEfficiencyRatios", "getProfitabilityRatios">>,
                          fd, dts))

----------------------------------------------------------------------------
(* The inputs: the tables one company's statements give for N periods, most *)
(* recent first, as getFinancialStatementsFromYahoo returns them; one cell  *)
(* or one column of them may be irregular.                                  *)

\* figures of a regular statement, in thousands, most recent period first
BaseCells(f) ==
    CASE f = "cce"          -> <<100, 80, 60, 50>>
      [] f = "currLia"      -> <<250, 300, 200, 220>>
      [] f = "currAssets"   -> <<500, 450, 400, 380>>
      [] f = "shortTermInv" -> <<50, 40, 30, 20>>
      [] f = "NR"           -> <<120, 100, 90, 80>>
      [] f = "inventory"    -> <<60, 50, 40, 30>>
      [] f = "totalAssets"  -> <<1000, 900, 800, 700>>
      [] f = "totalLia"     -> <<600, 550, 500, 450>>
      [] f = "totalSE"      -> <<400, 350, 300, 250>>
      [] f = "sales"        -> <<2000, 1800, 1500, 1400>>
      [] f = "gp"           -> <<800, 700, 600, 500>>
      [] f = "noil"         -> <<300, 250, 200, 180>>
      [] f = "ie"           -> <<-40, -30, -20, -10>>
      [] f = "ebit"         -> <<200, 150, 120, 100>>
      [] f = "cor"          -> <<1200, 1100, 900, 900>>
      [] f = "ni"           -> <<150, 120, 90, 70>>
      [] f = "ocf"          -> <<250, 200, 180, 160>>

BaseCell(f, i) ==
    Num(BaseCells(f)[IF i <= Len(BaseCells(f)) THEN i ELSE Len(BaseCells(f))])

\* what one irregular cell may hold: zero, a negative figure, a missing
\* value, the "not applicable" token; an interest expense booked with the
\* opposite sign; a current asset or liability with a fractional part
IrregularCells(f) ==
    {Num(0), Num(-25), NaN, Dash}
      \cup (IF f = "ie" THEN {Num(35)} ELSE {})
      \cup (IF f \in {"currAssets", "currLia"} THEN {Rat(1, 128)} ELSE {})

NoIrregularity == [kind |-> "none", f |-> "", i |-> 0, v |-> NaN]

Irregularities(n) ==
    {NoIrregularity}
      \cup {[kind |-> "absent", f |-> f, i |-> 0, v |-> NaN] : f \in Fields}
      \cup UNION {{[kind |-> "cell", f |-> f, i |-> i, v |-> v] :
                      i \in 1..n, v \in IrregularCells(f)} : f \in Fields}

\* one raw table: transpose()[1:] leaves the row labels 1..n
RawTable(name, n, irr) ==
    [index |-> [i \in 1..n |-> i],
     cols  |-> [c \in {ColumnOf(f) : f \in {g \in Fields :
                          TableOf(g) = name
                          /\ ~(irr.kind = "absent" /\ irr.f = g)}} |->
                 LET f == CHOOSE g \in Fields : ColumnOf(g) = c
                 IN  [i \in 1..n |->
                        IF irr.kind = "cell" /\ irr.f = f /\ irr.i = i
                        THEN irr.v ELSE BaseCell(f, i)]]]

\* the period labels of the income statement: years, most recent first, or
\* with the first label repeated
Periods(n, repeated) ==
    [i \in 1..n |-> IF repeated /\ i = 1 THEN 2017 ELSE 2019 - i]

----------------------------------------------------------------------------
(* The state machine.                                                       *)
(*   balSht, incStmt, cfStmt, dates  what was fetched                       *)
(*   financialData   the global record, "undefined" until constructed       *)
(*   constructed     the record as __init__ left it                         *)
(*   pc              "start", "ready" (record built) or "raised"            *)
(*   ret             the call the caller is looking at: its name, what it   *)
(*                   returned or raised and the averages an averaged ratio  *)
(*                   computed; NoCall once the caller has let go of it      *)
(*   threads         the calls of ratio functions that callers other than   *)
(*                   __main__ have in progress at once, each with its       *)
(*                   position and its locals; none under __main__           *)
(*   report          createMasterReport taken a statement at a time: the    *)
(*                   statement it is at, its tables and its src             *)
(*   file            FinancialRatios.html: whether it exists, its text and  *)
(*                   how many times it was opened for writing               *)

NoCall == [fn |-> "", out |-> NoFrame, avg |-> <<>>]

NoFile == [written |-> FALSE, src |-> NoSrc, writes |-> 0]

\* the callers that may run ratio functions at once
Threads == {1, 2}

\* a caller with no call in progress
Idle ==
    [fn |-> "", pc |-> "idle", wc |-> NoFrame, wc_series |-> <<>>,
     out |-> NoFrame, overlapped |-> FALSE]

NoThreads == [t \in Threads |-> Idle]

\* createMasterReport not entered
NoReport ==
    [status |-> "idle", at |-> 0, frames |-> <<>>, src |-> NoSrc,
     before |-> NoFile]

Init ==
    \E n \in 1..MaxPeriods : \E irr \in Irregularities(n) :
      \E repeated \in {r \in BOOLEAN : r => (n >= 2 /\ irr.kind = "none")} :
        /\ balSht  = RawTable("balSht", n, irr)
        /\ incStmt = RawTable("incStmt", n, irr)
        /\ cfStmt  = RawTable("cfStmt", n, irr)
        /\ dates   = Periods(n, repeated)
        /\ financialData = "undefined"
        /\ constructed = "undefined"
        /\ pc = "start"
        /\ ret = NoCall
        /\ file = NoFile
        /\ threads = NoThreads
        /\ report = NoReport

\* financialData = FinancialData(balSht, incStmt, cfStmt, stkQte, dates)
Construct ==
    /\ pc = "start"
    /\ \E r \in {FinancialData(balSht, incStmt, cfStmt)} :
           /\ pc' = IF r.err = "" THEN "ready" ELSE "raised"
           /\ financialData' = r.data
           /\ constructed' = r.data
           /\ ret' = IF r.err = "" THEN NoCall
                     ELSE [fn |-> "FinancialData", out |-> Raised(r.err),
                           avg |-> <<>>]
    /\ UNCHANGED <<balSht, incStmt, cfStmt, dates, file, threads, report>>

\* The caller is sequential: it calls a function when it holds no result, or
\* calls the function whose result it holds once more.
MayCall(fn) == pc = "ready" /\ ret.fn \in {"", fn}

\* one of the 25 ratio functions is called
CallRatio(fn) ==
    /\ MayCall(fn)
    /\ \E r \in {Call(fn, financialData, dates)} :
           /\ financialData' = r.fd
           /\ ret' = [fn |-> fn, out |-> r.out, avg |-> r.avg]
    /\ UNCHANGED <<balSht, incStmt, cfStmt, dates, constructed, pc, file,
                   threads, report>>

\* one of the four category table functions is called
GetTable(fn) ==
    /\ MayCall(fn)
    /\ \E r \in {CallTable(fn, financialData, dates)} :
           /\ financialData' = r.fd
           /\ ret' = [fn |-> fn, out |-> r.out, avg |-> <<>>]
    /\ UNCHANGED <<balSht, incStmt, cfStmt, dates, constructed, pc, file,
                   threads, report>>

\* createMasterReport(dates)
CreateMasterReport ==
    /\ MayCall("createMasterReport")
    /\ file.writes < MaxReports
    /\ \E r \in {createMasterReport(financialData, dates)} :
           /\ financialData' = r.fd
           /\ ret' = [fn |-> "createMasterReport", out |-> r.out,
                      avg |-> <<>>]
           /\ file' = IF r.out.err = ""
                      THEN [written |-> TRUE, src |-> r.src,
                            writes |-> file.writes + 1]
                      ELSE file
    /\ UNCHANGED <<balSht, incStmt, cfStmt, dates, constructed, pc, threads,
                   report>>

\* the caller lets go of the result it holds
Drop ==
    /\ pc = "ready"
    /\ ret # NoCall
    /\ ret' = NoCall
    /\ UNCHANGED <<balSht, incStmt, cfStmt, dates, financialData, constructed,
                   pc, file, threads, report>>

Next ==
    \/ Construct
    \/ \E fn \in RatioFunctions : CallRatio(fn)
    \/ \E fn \in TableFunctions : GetTable(fn)
    \/ CreateMasterReport
    \/ Drop

Spec == Init /\ [][Next]_vars

----------------------------------------------------------------------------
(* Properties.                                                              *)

Ready == pc = "ready"

\* the number of periods of the record
N == Len(dates)

\* the values of one canonical series as __init__ left them
Field(f) == constructed[f].values

\* the values a ratio function returned
Returned == ret.out.data[1]

AveragedFunctions ==
    {"calculateAssetTurnoverRatio", "calculateInventoryTurnoverRatio",
     "calculateAccountsReceivableTurnoverRatio", "calculateROARatio"}

\* the stock series an averaged ratio averages
StockOf(fn) ==
    CASE fn = "calculateAssetTurnoverRatio" -> "totalAssets"
      [] fn = "calculateInventoryTurnoverRatio" -> "inventory"
      [] fn = "calculateAccountsReceivableTurnoverRatio" -> "NR"
      [] fn = "calculateROARatio" -> "totalAssets"

\* v is the mean of a and b: 2v = a + b on numbers, NaN when either is NaN
IsMeanOf(v, a, b) ==
    IF IsNum(a) /\ IsNum(b)
    THEN IsNum(v) /\ 2 * v.n * a.d * b.d = v.d * (a.n * b.d + b.n * a.d)
    ELSE v = NaN

(* C1: every ratio function returns, without raising, a one-column series   *)
(* with exactly one entry per label of dates, in the order of dates.        *)
C1_LengthIsPeriods ==
    (Ready /\ ret.fn \in RatioFunctions) =>
        /\ ret.out.err = ""
        /\ ret.out.index = dates
        /\ Len(ret.out.columns) = 1
        /\ Len(Returned) = N

C1_Witness ==
    /\ Ready /\ ret.fn = "calculateAssetTurnoverRatio"
    /\ N >= 3 /\ ret.out.err = "" /\ Len(Returned) = N

(* C2: inside the averaged ratios the two-period average of the stock       *)
(* series x has avg[i] = (x[i] + x[i+1]) / 2 at every position but the last *)
(* and None at the last, for every input; [1000,900,800] gives              *)
(* [950,850,None].                                                          *)
C2_TwoPeriodAverage ==
    (Ready /\ ret.fn \in AveragedFunctions) =>
        /\ Len(ret.avg) = N
        /\ ret.avg[N] = None
        /\ \A i \in 1..(N - 1) :
              IsMeanOf(ret.avg[i], Field(StockOf(ret.fn))[i],
                       Field(StockOf(ret.fn))[i + 1])
        /\ Field(StockOf(ret.fn)) = <<Num(1000), Num(900), Num(800)>>
              => ret.avg = <<Num(950), Num(850), None>>

C2_Witness ==
    /\ Ready /\ ret.fn = "calculateROARatio"
    /\ Field("totalAssets") = <<Num(1000), Num(900), Num(800)>>
    /\ ret.avg = <<Num(950), Num(850), None>>

\* the raw table a canonical field is read from
TableVar(f) ==
    IF TableOf(f) = "balSht" THEN balSht
    ELSE IF TableOf(f) = "incStmt" THEN incStmt ELSE cfStmt

Absent(f) == ~HasColumn(TableVar(f), ColumnOf(f))

\* the raw cells of a field whose column is present
Cells(f) == TableVar(f).cols[ColumnOf(f)]

\* Working Capital at position i, unrounded
WCAt(i) ==
    FSub(FMul(Num(1000), Field("currAssets")[i]),
         FMul(Num(1000), Field("currLia")[i]))

Mean(a, b) == FMul(Rat(1, 2), FAdd(a, b))

\* the denominator of each ratio, after the formula table
Denominator(fn, i) ==
    CASE fn \in {"calculateCashRatio", "calculateQuickRatio",
                 "calculateCurrentRatio"} -> Field("currLia")[i]
      [] fn \in {"calculateCashToWorkingCapitalRatio",
                 "calculateInventoryToWorkingCapitalRatio",
                 "salesToWorkingCapitalRatio"} -> WCAt(i)
      [] fn = "salesToCurrentAssetsRatio" -> Field("currAssets")[i]
      [] fn \in {"calculateDebtRatio", "calculateEquityRatio"} ->
            Field("totalAssets")[i]
      [] fn \in {"calculateDebtToEquityRatio", "calculateROERatio"} ->
            Field("totalSE")[i]
      [] fn = "calculateDebtToIncomeRatio" -> Field("gp")[i]
      [] fn \in {"calculateDebtServiceCoverageRatio",
                 "calculateTimesInterestEarned"} -> Field("ie")[i]
      [] fn \in {"calculateCashFlowToDebtRatio", "calculateWCToDebtRatio"} ->
            Field("totalLia")[i]
      [] fn \in AveragedFunctions ->
            IF i = N THEN None
            ELSE Mean(Field(StockOf(fn))[i], Field(StockOf(fn))[i + 1])
      [] fn \in {"calculateROSRatio", "calculateNetProfitMarginRatio",
                 "calculateGrossProfitMarginRatio",
                 "calculateOperatingProfitMarginRatio"} -> Field("sales")[i]

\* zero, missing or undefined
BadDenominator(v) == ~NotNA(v) \/ (IsNum(v) /\ v.n = 0)

(* C3: wherever the denominator of a ratio is zero, missing or undefined,   *)
(* the ratio function returns the undefined marker NaN at that position     *)
(* (never an infinity) and raises nothing.                                  *)
C3_UndefinedOnBadDenominator ==
    (Ready /\ ret.fn \in RatioFunctions \ {"calculateWorkingCapital"}) =>
        /\ ret.out.err = ""
        /\ \A i \in 1..N :
              BadDenominator(Denominator(ret.fn, i)) => Returned[i] = NaN

\* the fields each ratio function reads
Consumes(fn) ==
    CASE fn = "calculateCashRatio" -> {"cce", "currLia"}
      [] fn = "calculateQuickRatio" -> {"cce", "shortTermInv", "NR", "currLia"}
      [] fn = "calculateCurrentRatio" -> {"currAssets", "currLia"}
      [] fn = "calculateWorkingCapital" -> {"currAssets", "currLia"}
      [] fn = "calculateCashToWorkingCapitalRatio" ->
            {"cce", "currAssets", "currLia"}
      [] fn = "calculateInventoryToWorkingCapitalRatio" ->
            {"inventory", "currAssets", "currLia"}
      [] fn = "salesToWorkingCapitalRatio" -> {"sales", "currAssets", "currLia"}
      [] fn = "salesToCurrentAssetsRatio" -> {"sales", "currAssets"}
      [] fn = "calculateDebtRatio" -> {"totalLia", "totalAssets"}
      [] fn = "calculateEquityRatio" -> {"totalSE", "totalAssets"}
      [] fn = "calculateDebtToEquityRatio" -> {"totalLia", "totalSE"}
      [] fn = "calculateDebtToIncomeRatio" -> {"totalLia", "gp"}
      [] fn = "calculateDebtServiceCoverageRatio" -> {"noil", "ie"}
      [] fn = "calculateCashFlowToDebtRatio" -> {"ocf", "totalLia"}
      [] fn = "calculateWCToDebtRatio" -> {"currAssets", "currLia", "totalLia"}
      [] fn = "calculateTimesInterestEarned" -> {"ebit", "ie"}
      [] fn = "calculateAssetTurnoverRatio" -> {"sales", "totalAssets"}
      [] fn = "calculateInventoryTurnoverRatio" -> {"cor", "inventory"}
      [] fn = "calculateAccountsReceivableTurnoverRatio" -> {"sales", "NR"}
      [] fn = "calculateROARatio" -> {"ni", "totalAssets"}
      [] fn = "calculateROERatio" -> {"ni", "totalSE"}
      [] fn = "calculateROSRatio" -> {"ebit", "sales"}
      [] fn = "calculateNetProfitMarginRatio" -> {"ni", "sales"}
      [] fn = "calculateGrossProfitMarginRatio" -> {"gp", "sales"}
      [] fn = "calculateOperatingProfitMarginRatio" -> {"noil", "sales"}

\* the record the same statements give with every column present
RegularRecord ==
    FinancialData(RawTable("balSht", N, NoIrregularity),
                  RawTable("incStmt", N, NoIrregularity),
                  RawTable("cfStmt", N, NoIrregularity)).data

(* C4: when the column of one canonical field is absent from its raw table, *)
(* the record is still constructed and the report still produced; the       *)
(* ratios that read the field are undefined at every period and the others  *)
(* have the values they have with the column present.                       *)
C4_MissingColumnTolerated ==
    (pc # "start" /\ \E f \in Fields : Absent(f)) =>
        /\ pc = "ready"
        /\ ret.fn \in RatioFunctions =>
              /\ ret.out.err = ""
              /\ (\E f \in Consumes(ret.fn) : Absent(f))
                    => \A i \in 1..N : Returned[i] = NaN
              /\ (\A f \in Consumes(ret.fn) : ~Absent(f))
                    => ret.out = Call(ret.fn, RegularRecord, dates).out
        /\ ret.fn = "createMasterReport" => file.written

(* C5: a "not applicable" token in a source cell does not make the          *)
(* construction raise: that cell becomes NaN in the field's series and      *)
(* every other cell keeps its value.                                        *)
C5_PlaceholderCoerced ==
    (pc # "start"
       /\ \E f \in Fields : ~Absent(f) /\ \E i \in 1..N : Cells(f)[i] = Dash)
    =>  /\ pc = "ready"
        /\ \A f \in Fields : \A i \in 1..N :
              Field(f)[i] = IF Cells(f)[i] = Dash THEN NaN ELSE Cells(f)[i]

WCDependents ==
    {"calculateCashToWorkingCapitalRatio",
     "calculateInventoryToWorkingCapitalRatio", "salesToWorkingCapitalRatio",
     "calculateWCToDebtRatio"}

\* what a Working-Capital dependent is at position i, from the unrounded WC
WCDependentAt(fn, i) ==
    CASE fn = "calculateCashToWorkingCapitalRatio" ->
            FDiv(FMul(Num(1000), Field("cce")[i]), WCAt(i))
      [] fn = "calculateInventoryToWorkingCapitalRatio" ->
            FDiv(FMul(Num(1000), Field("inventory")[i]), WCAt(i))
      [] fn = "salesToWorkingCapitalRatio" ->
            FDiv(FMul(Num(1000), Field("sales")[i]), WCAt(i))
      [] fn = "calculateWCToDebtRatio" -> FDiv(WCAt(i), Field("totalLia")[i])

\* the cell of a category table: the row of a ratio, the column of period i
TableCell(row, i) == ret.out.data[i][row]

(* C6: the ratio functions return unrounded values and the Working-Capital  *)
(* dependents are computed from the unrounded Working Capital; the values   *)
(* are rounded to 3 decimals only in the category tables.                   *)
C6_RoundingOnlyInTables ==
    /\ (Ready /\ ret.fn = "calculateWorkingCapital") =>
          \A i \in 1..N : Returned[i] = WCAt(i)
    /\ (Ready /\ ret.fn \in WCDependents) =>
          \A i \in 1..N : Returned[i] = WCDependentAt(ret.fn, i)
    /\ (Ready /\ ret.fn = "getLiquidityRatios" /\ IsUnique(dates)) =>
          \A i \in 1..N :
            /\ TableCell(4, i) = FRound(WCAt(i), ROUNDING_PRECISION)
            /\ \A r \in 5..7 :
                  TableCell(r, i) =
                    FRound(WCDependentAt(LiquidityFunctions[r], i),
                           ROUNDING_PRECISION)
    /\ (Ready /\ ret.fn = "getSolvencyRatios" /\ IsUnique(dates)) =>
          \A i \in 1..N :
            TableCell(7, i) = FRound(WCDependentAt("calculateWCToDebtRatio", i),
                                     ROUNDING_PRECISION)

\* Working Capital has more than 3 decimals at some position, and the ratio
\* returned there is not what the rounded Working Capital gives
C6_Witness ==
    /\ Ready /\ ret.fn = "calculateCashToWorkingCapitalRatio"
    /\ \E i \in 1..N :
          /\ FRound(WCAt(i), ROUNDING_PRECISION) # WCAt(i)
          /\ Returned[i] = WCDependentAt(ret.fn, i)
          /\ Returned[i] # FDiv(FMul(Num(1000), Field("cce")[i]),
                                FRound(WCAt(i), ROUNDING_PRECISION))

(* C7: generating the report again from the same record writes the same     *)
(* document, and a category table function called again returns the same    *)
(* table.                                                                   *)
C7_SecondGenerationIdentical ==
    [][/\ (ret'.fn = "createMasterReport" /\ file.written /\ ret' # ret)
            => (ret'.out.err = "" /\ file'.src = file.src)
       /\ (ret.fn \in TableFunctions /\ ret'.fn = ret.fn)
            => ret'.out = ret.out]_vars

\* the report has been generated twice
C7_Witness ==
    Ready /\ ret.fn = "createMasterReport" /\ file.written /\ file.writes = 2

(* C8: after construction no call changes the record: every canonical       *)
(* series keeps its values, its length and its index labels.                *)
C8_RecordNeverMutated ==
    Ready => /\ financialData = constructed
             /\ \A f \in Fields :
                   /\ Len(financialData[f].values) = N
                   /\ financialData[f].index = [i \in 1..N |-> i]

\* after the report (every ratio function has run, the Working-Capital
\* dependents have re-indexed their series) the record is as constructed
C8_Witness ==
    /\ Ready /\ ret.fn = "createMasterReport" /\ file.written
    /\ N >= 2 /\ financialData = constructed

(* C9: Debt Service Coverage is operatingIncome / |interestExpense| at      *)
(* every position, so positive for a negative interest expense and a        *)
(* positive operating income.                                               *)
C9_DebtServiceCoverageAbs ==
    (Ready /\ ret.fn = "calculateDebtServiceCoverageRatio") =>
        \A i \in 1..N :
          /\ Returned[i] = FDiv(Field("noil")[i], FAbs(Field("ie")[i]))
          /\ (IsNum(Field("ie")[i]) /\ Field("ie")[i].n < 0
                /\ IsNum(Field("noil")[i]) /\ Field("noil")[i].n > 0)
               => Sign(Returned[i]) = 1

(* C10: Times Interest Earned is ebit / |interestExpense| at every          *)
(* position, with the sign of ebit whatever the sign of the interest        *)
(* expense; interestExpense=[-40,-30], ebit=[200,150] gives [5,5].          *)
C10_TimesInterestEarned ==
    (Ready /\ ret.fn = "calculateTimesInterestEarned") =>
        /\ ret.out.err = ""
        /\ \A i \in 1..N :
              /\ Returned[i] = FDiv(Field("ebit")[i], FAbs(Field("ie")[i]))
              /\ (IsNum(Field("ebit")[i]) /\ IsNum(Field("ie")[i])
                    /\ Field("ie")[i].n # 0)
                   => /\ IsNum(Returned[i])
                      /\ Sign(Returned[i]) = Sign(Field("ebit")[i])
                      /\ Returned[i].n * Abs(Field("ie")[i].n)
                           * Field("ebit")[i].d
                         = Returned[i].d * Field("ebit")[i].n
                           * Field("ie")[i].d
        /\ (Field("ie") = <<Num(-40), Num(-30)>>
              /\ Field("ebit") = <<Num(200), Num(150)>>)
             => Returned = <<Num(5), Num(5)>>

C10_Witness ==
    /\ Ready /\ ret.fn = "calculateTimesInterestEarned"
    /\ Field("ie") = <<Num(-40), Num(-30)>>
    /\ Field("ebit") = <<Num(200), Num(150)>>
    /\ Returned = <<Num(5), Num(5)>>

(* C11: Working Capital at every position is 1000 * (currentAssets -        *)
(* currentLiabilities) and the Current Ratio is currentAssets /             *)
(* currentLiabilities; currentAssets=[500,450], currentLiabilities=[250,300]*)
(* gives Working Capital [250000,150000] and Current Ratio [2.0,1.5].       *)
C11_WorkingCapitalAndCurrentRatio ==
    /\ (Ready /\ ret.fn = "calculateWorkingCapital") =>
          /\ ret.out.err = ""
          /\ \A i \in 1..N :
                (IsNum(Field("currAssets")[i]) /\ IsNum(Field("currLia")[i]))
                => /\ IsNum(Returned[i])
                   /\ Returned[i].n * Field("currAssets")[i].d
                         * Field("currLia")[i].d
                      = Returned[i].d * 1000
                         * (Field("currAssets")[i].n * Field("currLia")[i].d
                            - Field("currLia")[i].n * Field("currAssets")[i].d)
          /\ (Field("currAssets") = <<Num(500), Num(450)>>
                /\ Field("currLia") = <<Num(250), Num(300)>>)
               => Returned = <<Num(250000), Num(150000)>>
    /\ (Ready /\ ret.fn = "calculateCurrentRatio") =>
          /\ ret.out.err = ""
          /\ \A i \in 1..N :
                (IsNum(Field("currAssets")[i]) /\ IsNum(Field("currLia")[i])
                   /\ Field("currLia")[i].n # 0)
                => /\ IsNum(Returned[i])
                   /\ Returned[i].n * Field("currLia")[i].n
                         * Field("currAssets")[i].d
                      = Returned[i].d * Field("currAssets")[i].n
                         * Field("currLia")[i].d
          /\ (Field("currAssets") = <<Num(500), Num(450)>>
                /\ Field("currLia") = <<Num(250), Num(300)>>)
               => Returned = <<Num(2), Rat(3, 2)>>

C11_Witness ==
    /\ Ready /\ ret.fn = "calculateCurrentRatio"
    /\ Field("currAssets") = <<Num(500), Num(450)>>
    /\ Field("currLia") = <<Num(250), Num(300)>>
    /\ Returned = <<Num(2), Rat(3, 2)>>

\* the section titles of the report, in the order of the document
SectionTitles ==
    <<"Liquidity Ratios", "Solvency Ratios", "Efficiency Ratios",
      "Profitability Ratios">>

\* the ratio rows of each category, in declaration order
RowLabels ==
    <<<<"Cash Ratio", "Quick Ratio", "Current Ratio", "Working Capital (WC)",
        "Cash To WC Ratio", "Inventory To WC Ratio", "Sales To WC Ratio",
        "Sales To Current Assets Ratio">>,
      <<"Debt Ratio", "Equity Ratio", "Debt to Equity Ratio",
        "Debt to Income Ratio", "Debt Service Coverage Ratio",
        "Cash Flow to Debt Ratio", "WC to Debt Ratio",
        "Times Interest Earned">>,
      <<"Asset Turnover Ratio", "Inventory Turnover Ratio",
        "Accounts Receivable Turnover Ratio">>,
      <<"Return on Assets", "Return on Equity", "Return on Sales",
        "Net Profit Margin Ratio", "Gross Profit Margin Ratio",
        "Operating Profit Margin Ratio">>>>

CategoryOf(fn) ==
    CASE fn = "getLiquidityRatios" -> 1
      [] fn = "getSolvencyRatios" -> 2
      [] fn = "getEfficiencyRatios" -> 3
      [] fn = "getProfitabilityRatios" -> 4

\* the row labels of a rendered table, top to bottom
RowsOf(html) == [r \in 1..Len(html.rows) |-> html.rows[r].th]

(* C12: a written report holds the four categories in the order Liquidity,  *)
(* Solvency, Efficiency, Profitability, each table under its own title, and *)
(* the rows of each category table are its ratios in declaration order,     *)
(* each of the 25 ratios once, whatever the data.                           *)
C12_DeclarationOrder ==
    /\ file.written =>
          /\ Len(file.src.sections) = 4
          /\ \A k \in 1..4 :
                /\ file.src.sections[k].h1 = SectionTitles[k]
                /\ RowsOf(file.src.sections[k].table) = RowLabels[k]
    /\ (Ready /\ ret.fn \in TableFunctions /\ ret.out.err = "") =>
          ret.out.index = RowLabels[CategoryOf(ret.fn)]

\* a report written from a record with an undefined or infinite-making cell
C12_Witness ==
    /\ Ready /\ file.written
    /\ \E f \in Fields : \E i \in 1..N : Field(f)[i] \in {NaN, Num(0)}
    /\ \A k \in 1..4 : RowsOf(file.src.sections[k].table) = RowLabels[k]

(* C13: for every period index of N labels, distinct or not, a category    *)
(* table has exactly one column per position of the period index, in the    *)
(* order of the index, and one row per ratio: the left joins drop no period *)
(* and add none.                                                            *)
C13_JoinKeepsPeriods ==
    /\ (Ready /\ ret.fn \in TableFunctions) =>
          /\ ret.out.err = ""
          /\ ret.out.columns = dates
          /\ Len(ret.out.data) = N
          /\ Len(ret.out.index) = Len(RowLabels[CategoryOf(ret.fn)])
    /\ file.written =>
          \A k \in 1..4 : file.src.sections[k].table.head = dates

----------------------------------------------------------------------------
(* Ratio functions called at once.  Two callers each run ratio functions on *)
(* the one global record, a statement at a time; what a function holds in   *)
(* its locals (wc, wc_series) belongs to its caller, the record's series    *)
(* are shared.                                                              *)

\* the record series a Working-Capital dependent divides by or into
WCOperand(fn) ==
    CASE fn = "calculateCashToWorkingCapitalRatio" -> "cce"
      [] fn = "calculateInventoryToWorkingCapitalRatio" -> "inventory"
      [] fn = "salesToWorkingCapitalRatio" -> "sales"
      [] fn = "calculateWCToDebtRatio" -> "totalLia"

\* ratioAsSeries = ...; return pd.DataFrame(...) of a Working-Capital dependent
WCDivide(fn, w, dts) ==
    CASE fn = "calculateCashToWorkingCapitalRatio" -> cashToWC(w, dts)
      [] fn = "calculateInventoryToWorkingCapitalRatio" -> inventoryToWC(w, dts)
      [] fn = "salesToWorkingCapitalRatio" -> salesToWC(w, dts)
      [] fn = "calculateWCToDebtRatio" -> wcToDebt(w, dts)

\* the statements cover the regular figures, or an irregular newest cell of
\* the current assets or of the total liabilities
ConcurrentInputs(n) ==
    {irr \in Irregularities(n) :
        \/ irr.kind = "none"
        \/ /\ irr.kind = "cell" /\ irr.i = 1 /\ irr.v # Dash
           /\ irr.f \in {"currAssets", "totalLia"}}

InitConcurrent ==
    \E n \in 1..MaxPeriods : \E irr \in ConcurrentInputs(n) :
      \E repeated \in {r \in BOOLEAN : r => (n >= 2 /\ irr.kind = "none")} :
        /\ balSht  = RawTable("balSht", n, irr)
        /\ incStmt = RawTable("incStmt", n, irr)
        /\ cfStmt  = RawTable("cfStmt", n, irr)
        /\ dates   = Periods(n, repeated)
        /\ financialData = "undefined"
        /\ constructed = "undefined"
        /\ pc = "start"
        /\ ret = NoCall
        /\ file = NoFile
        /\ threads = NoThreads
        /\ report = NoReport

InProgress(t) == threads[t].pc \notin {"idle", "returned"}

\* caller t enters a ratio function
Begin(t, fn) ==
    /\ pc = "ready"
    /\ threads[t].pc = "idle"
    /\ threads' =
         [u \in Threads |->
            IF u = t
            THEN [Idle EXCEPT !.fn = fn, !.pc = "called",
                              !.overlapped = \E v \in Threads \ {t} :
                                                InProgress(v)]
            ELSE IF InProgress(u)
                 THEN [threads[u] EXCEPT !.overlapped = TRUE]
                 ELSE threads[u]]
    /\ UNCHANGED <<balSht, incStmt, cfStmt, dates, financialData, constructed,
                   pc, ret, file, report>>

\* wc = calculateWorkingCapital(dates)
CallWC(t) ==
    /\ threads[t].pc = "called"
    /\ threads[t].fn \in WCDependents
    /\ \E r \in {calculateWorkingCapital(financialData, dates)} :
           /\ financialData' = r.fd
           /\ threads' =
                [threads EXCEPT ![t].wc = r.out,
                                ![t].out = IF r.out.err = "" THEN NoFrame
                                           ELSE r.out,
                                ![t].pc = IF r.out.err = "" THEN "wc"
                                          ELSE "returned"]
    /\ UNCHANGED <<balSht, incStmt, cfStmt, dates, constructed, pc, ret, file,
                   report>>

\* wc_series = wc["Working Capital (WC)"]; wc_series.index = <operand>.index
Reindex(t) ==
    /\ threads[t].pc = "wc"
    /\ \E w \in {reindexedWC(Result(financialData, threads[t].wc, <<>>),
                             WCOperand(threads[t].fn))} :
           /\ financialData' = RecordOf(w.objs)
           /\ threads' = [threads EXCEPT ![t].wc_series = w.objs["wc_series"],
                                         ![t].pc = "reindexed"]
    /\ UNCHANGED <<balSht, incStmt, cfStmt, dates, constructed, pc, ret, file,
                   report>>

\* ratioAsSeries = 1000*<operand>/wc_series; return pd.DataFrame(...)
Divide(t) ==
    /\ threads[t].pc = "reindexed"
    /\ \E r \in {WCDivide(threads[t].fn,
                           [err |-> "", fd |-> financialData,
                            objs |-> Objects(financialData,
                                             threads[t].wc_series)],
                           dates)} :
           /\ financialData' = r.fd
           /\ threads' = [threads EXCEPT ![t].out = r.out,
                                         ![t].pc = "returned"]
    /\ UNCHANGED <<balSht, incStmt, cfStmt, dates, constructed, pc, ret, file,
                   report>>

\* the body of a ratio function that calls no other
Compute(t) ==
    /\ threads[t].pc = "called"
    /\ threads[t].fn \notin WCDependents
    /\ \E r \in {Call(threads[t].fn, financialData, dates)} :
           /\ financialData' = r.fd
           /\ threads' = [threads EXCEPT ![t].out = r.out,
                                         ![t].pc = "returned"]
    /\ UNCHANGED <<balSht, incStmt, cfStmt, dates, constructed, pc, ret, file,
                   report>>

\* caller t lets go of what it was returned
Finish(t) ==
    /\ threads[t].pc = "returned"
    /\ threads' = [threads EXCEPT ![t] = Idle]
    /\ UNCHANGED <<balSht, incStmt, cfStmt, dates, financialData, constructed,
                   pc, ret, file, report>>

NextConcurrent ==
    \/ Construct
    \/ \E t \in Threads : \E fn \in RatioFunctions : Begin(t, fn)
    \/ \E t \in Threads : CallWC(t)
    \/ \E t \in Threads : Reindex(t)
    \/ \E t \in Threads : Divide(t)
    \/ \E t \in Threads : Compute(t)
    \/ \E t \in Threads : Finish(t)

SpecConcurrent == InitConcurrent /\ [][NextConcurrent]_vars

(* C14: a ratio function returns what it returns when called alone on the   *)
(* record as constructed, whatever ratio functions ran before it and        *)
(* however the statements of a call running at the same time interleave     *)
(* with its own; no call leaves the record changed for another to read.     *)
C14_NoOrderDependency ==
    Ready =>
        /\ financialData = constructed
        /\ \A t \in Threads :
              threads[t].pc = "returned" =>
                threads[t].out = Call(threads[t].fn, constructed, dates).out

\* Cash-to-WC has returned after running while Inventory-to-WC, which has
\* re-indexed its own working-capital series, was in progress
C14_Witness ==
    /\ Ready
    /\ threads[1].fn = "calculateCashToWorkingCapitalRatio"
    /\ threads[1].pc = "returned" /\ threads[1].overlapped
    /\ threads[2].fn = "calculateInventoryToWorkingCapitalRatio"
    /\ threads[2].pc = "reindexed" /\ threads[2].overlapped
    /\ threads[1].out.err = ""
    /\ threads[1].out =
         Call("calculateCashToWorkingCapitalRatio", constructed, dates).out

\* the record agrees at position i with another record
AgreeAt(other, i) == \A f \in Fields : Field(f)[i] = other[f].values[i]

\* the positions of the record that position i of a ratio reads
ReadsAgree(other, fn, i) ==
    AgreeAt(other, i)
      /\ ((fn \in AveragedFunctions /\ i < N) => AgreeAt(other, i + 1))

(* C15: position locality.  For two records of the same length (the record  *)
(* and the record of the regular statements) that agree on every field at   *)
(* position i, and at i+1 for the averaged ratios, every ratio function     *)
(* returns the same value at position i, whatever the other positions hold. *)
C15_PositionLocality ==
    (Ready /\ ret.fn \in RatioFunctions) =>
        \A other \in {RegularRecord} :
          \A out \in {Call(ret.fn, other, dates).out} :
            \A i \in 1..N :
              ReadsAgree(other, ret.fn, i) =>
                (ret.out.err = "" /\ Returned[i] = out.data[1][i])

\* an undefined inventory at the oldest of three periods: Inventory Turnover
\* differs from the regular one at the second position and not at the first
C15_Witness ==
    /\ Ready /\ ret.fn = "calculateInventoryTurnoverRatio" /\ N = 3
    /\ Field("inventory")[3] = NaN
    /\ \E other \in {RegularRecord} :
         \E out \in {Call(ret.fn, other, dates).out} :
           /\ ReadsAgree(other, ret.fn, 1) /\ ~ReadsAgree(other, ret.fn, 2)
           /\ Returned[1] = out.data[1][1]
           /\ Returned[2] # out.data[1][2]

\* the flow each averaged ratio divides
FlowOf(fn) ==
    CASE fn = "calculateAssetTurnoverRatio" -> "sales"
      [] fn = "calculateInventoryTurnoverRatio" -> "cor"
      [] fn = "calculateAccountsReceivableTurnoverRatio" -> "sales"
      [] fn = "calculateROARatio" -> "ni"

\* v = flow / ((a + b) / 2), for numbers with a + b # 0
IsFlowOverMean(v, flow, a, b) ==
    /\ IsNum(v)
    /\ v.n * flow.d * (a.n * b.d + b.n * a.d) = v.d * 2 * flow.n * a.d * b.d

(* C16: each averaged ratio is, at every position i but the oldest,         *)
(* flow[i] / ((stock[i] + stock[i+1]) / 2) with flow and stock at the same  *)
(* positions of the record, and undefined at the oldest position, for the   *)
(* index labels 1..N the record's series carry.                             *)
C16_AverageAtNewerPosition ==
    (Ready /\ ret.fn \in AveragedFunctions) =>
        /\ ret.out.err = ""
        /\ constructed[FlowOf(ret.fn)].index = [i \in 1..N |-> i]
        /\ Returned[N] = NaN
        /\ \A i \in 1..(N - 1) :
              (/\ IsNum(Field(FlowOf(ret.fn))[i])
               /\ IsNum(Field(StockOf(ret.fn))[i])
               /\ IsNum(Field(StockOf(ret.fn))[i + 1])
               /\ Sign(FAdd(Field(StockOf(ret.fn))[i],
                            Field(StockOf(ret.fn))[i + 1])) # 0)
              => IsFlowOverMean(Returned[i], Field(FlowOf(ret.fn))[i],
                                Field(StockOf(ret.fn))[i],
                                Field(StockOf(ret.fn))[i + 1])

C16_Witness ==
    /\ Ready /\ ret.fn = "calculateAccountsReceivableTurnoverRatio" /\ N = 3
    /\ Field("NR") = <<Num(120), Num(100), Num(90)>>
    /\ Returned = <<FDiv(Field("sales")[1], Num(110)),
                    FDiv(Field("sales")[2], Num(95)), NaN>>

----------------------------------------------------------------------------
(* createMasterReport, a statement at a time.  The balance sheet may cover  *)
(* other periods than the income statement that gives the dates, and        *)
(* FinancialRatios.html may be there from an earlier run of the program.    *)

\* a variant of Program that opens the file before the tables are computed
Program_OpenFirst ==
    <<"open", "getLiquidityRatios", "getSolvencyRatios", "getEfficiencyRatios",
      "getProfitabilityRatios", "to_html", "write", "close">>

\* the statements of createMasterReport that compute or touch the file, in
\* their order: the four tables, their rendering into src, open, write, close
Program ==
    <<"getLiquidityRatios", "getSolvencyRatios", "getEfficiencyRatios",
      "getProfitabilityRatios", "to_html", "open", "write", "close">>

\* FinancialRatios.html as an earlier run left it
EarlierFile ==
    [written |-> TRUE,
     src |-> [header   |-> "<html><head><title> Financial Ratios </title><body>",
              sections |-> <<>>,
              footer   |-> "</body></html>"],
     writes |-> 0]

\* the regular figures, or an irregular newest cell of the current liabilities
ReportInputs(n) ==
    {irr \in Irregularities(n) :
        \/ irr.kind = "none"
        \/ /\ irr.kind = "cell" /\ irr.i = 1 /\ irr.f = "currLia"
           /\ irr.v \in {Num(0), NaN}}

InitReport ==
    \E n \in 1..MaxPeriods : \E nb \in 1..MaxPeriods :
      \E irr \in ReportInputs(n) : \E f \in {NoFile, EarlierFile} :
        /\ balSht  = RawTable("balSht", nb, irr)
        /\ incStmt = RawTable("incStmt", n, irr)
        /\ cfStmt  = RawTable("cfStmt", n, irr)
        /\ dates   = Periods(n, FALSE)
        /\ financialData = "undefined"
        /\ constructed = "undefined"
        /\ pc = "start"
        /\ ret = NoCall
        /\ file = f
        /\ threads = NoThreads
        /\ report = NoReport

\* the statement createMasterReport is at
Statement == Program[report.at]

\* createMasterReport(dates) is entered
EnterReport ==
    /\ pc = "ready"
    /\ report.status \in {"idle", "done"}
    /\ file.writes < MaxReports
    /\ report' = [status |-> "running", at |-> 1, frames |-> <<>>,
                  src |-> NoSrc, before |-> file]
    /\ UNCHANGED <<balSht, incStmt, cfStmt, dates, financialData, constructed,
                   pc, ret, file, threads>>

\* liqTable = getLiquidityRatios(dates), ..., profitTable = ...
TableStatement ==
    /\ report.status = "running"
    /\ Statement \in TableFunctions
    /\ \E r \in {CallTable(Statement, financialData, dates)} :
           /\ financialData' = r.fd
           /\ report' = IF r.out.err # ""
                        THEN [report EXCEPT !.status = "raised"]
                        ELSE [report EXCEPT !.frames = @ \o <<r.out>>,
                                            !.at = @ + 1]
    /\ UNCHANGED <<balSht, incStmt, cfStmt, dates, constructed, pc, ret, file,
                   threads>>

\* the four to_html() and src = header + ... + footer
RenderStatement ==
    /\ report.status = "running"
    /\ Statement = "to_html"
    /\ Len(report.frames) = 4
    /\ report' = [report EXCEPT
                    !.src = document([fd |-> financialData,
                                      frames |-> report.frames,
                                      err |-> ""]).src,
                    !.at = @ + 1]
    /\ UNCHANGED <<balSht, incStmt, cfStmt, dates, financialData, constructed,
                   pc, ret, file, threads>>

\* myFile = open("FinancialRatios.html", "w"): created, or truncated
OpenStatement ==
    /\ report.status = "running"
    /\ Statement = "open"
    /\ file' = [written |-> TRUE, src |-> NoSrc, writes |-> file.writes]
    /\ report' = [report EXCEPT !.at = @ + 1]
    /\ UNCHANGED <<balSht, incStmt, cfStmt, dates, financialData, constructed,
                   pc, ret, threads>>

\* myFile.write(src)
WriteStatement ==
    /\ report.status = "running"
    /\ Statement = "write"
    /\ file.written
    /\ file' = [file EXCEPT !.src = report.src, !.writes = @ + 1]
    /\ report' = [report EXCEPT !.at = @ + 1]
    /\ UNCHANGED <<balSht, incStmt, cfStmt, dates, financialData, constructed,
                   pc, ret, threads>>

\* myFile.close(), and the return
CloseStatement ==
    /\ report.status = "running"
    /\ Statement = "close"
    /\ report' = [report EXCEPT !.status = "done"]
    /\ UNCHANGED <<balSht, incStmt, cfStmt, dates, financialData, constructed,
                   pc, ret, file, threads>>

NextReport ==
    \/ Construct
    \/ EnterReport
    \/ TableStatement
    \/ RenderStatement
    \/ OpenStatement
    \/ WriteStatement
    \/ CloseStatement

SpecReport == InitReport /\ [][NextReport]_vars

(* C17: createMasterReport touches FinancialRatios.html only after the four *)
(* category tables are computed and rendered.  While a table is still to be *)
(* computed or rendered, and when a table function has raised, the file is  *)
(* as it was before the call (not created, not truncated, nothing written); *)
(* a file that has been written holds the four sections.                    *)
C17_FileAfterTables ==
    /\ report.status = "raised" => file = report.before
    /\ (report.status = "running" /\ file # report.before) =>
          /\ Len(report.frames) = 4
          /\ report.src.sections =
               [k \in 1..4 |-> [h1 |-> SectionTitles[k],
                                table |-> to_html(report.frames[k])]]
    /\ report.status = "done" =>
          /\ file.written
          /\ file.src = report.src
          /\ Len(file.src.sections) = 4
          /\ \A k \in 1..4 :
                /\ file.src.sections[k].h1 = SectionTitles[k]
                /\ file.src.sections[k].table = to_html(report.frames[k])

\* the balance sheet covers other periods than the dates, a table function
\* has raised, and the file an earlier run left is as it was
C17_Witness ==
    /\ report.status = "raised"
    /\ report.before = EarlierFile
    /\ file = EarlierFile
    /\ Len(balSht.index) # Len(dates)

====
